---- MODULE Spec2Model ----
(***************************************************************************)
(* Model of the projection engine of the business-case calculator          *)
(* (src/src/calculations.ts).  buildScenarioResult is a single pass over   *)
(* the years of the horizon with one carried accumulator                   *)
(* (cumulativeCashFlow) and one latch (paybackYear); the model runs that    *)
(* loop one iteration per step and returns the ScenarioResult.             *)
(*                                                                         *)
(* Numbers are exact rationals [n, d] in lowest terms with d > 0, the      *)
(* real-number reading of the JavaScript numbers of the source.  A value   *)
(* of type "number | null" is the record None or the record Some(v).       *)
(***************************************************************************)
EXTENDS Integers, Sequences, FiniteSets, TLC

\* ------------------------------------------------------------------------
\* Bounds of the model
\* ------------------------------------------------------------------------
MaxYears == 3
MaxLen == 3
MaxCalls == 3

\* ------------------------------------------------------------------------
\* Rational arithmetic
\* ------------------------------------------------------------------------
Abs(x) == IF x < 0 THEN -x ELSE x

RECURSIVE GCD(_, _)
GCD(a, b) == IF b = 0 THEN a ELSE GCD(b, a % b)

Norm(n, d) ==
  LET s == IF d < 0 THEN -1 ELSE 1
      g == GCD(Abs(n), Abs(d))
  IN  [n |-> (s * n) \div g, d |-> (s * d) \div g]

R(k) == [n |-> k, d |-> 1]
Frac(a, b) == Norm(a, b)

RAdd(a, b) == Norm(a.n * b.d + b.n * a.d, a.d * b.d)
RNeg(a) == [n |-> -a.n, d |-> a.d]
RSub(a, b) == RAdd(a, RNeg(b))
RMul(a, b) ==
  LET x == Norm(a.n, b.d)
      y == Norm(b.n, a.d)
  IN  Norm(x.n * y.n, x.d * y.d)
RInv(a) == Norm(a.d, a.n)
RDiv(a, b) == RMul(a, RInv(b))
RLt(a, b) == a.n * b.d < b.n * a.d
RGt(a, b) == RLt(b, a)
RGe(a, b) == ~RLt(a, b)
RLe(a, b) == ~RLt(b, a)

RECURSIVE RPow(_, _)
RPow(b, e) == IF e = 0 THEN R(1) ELSE RMul(b, RPow(b, e - 1))

\* number | null
None == [tag |-> "null"]
Some(v) == [tag |-> "number", value |-> v]

\* ------------------------------------------------------------------------
\* Argument values of a call
\* ------------------------------------------------------------------------
GeneralInputs == [productType : {"software", "hardware"}, years : 0..MaxYears]

UpfrontCosts ==
  [devCapex : {R(0), R(1000)}, launchMarketingCapex : {R(0)}]
    \cup [devCapex : {R(1000)}, launchMarketingCapex : {R(500)}]

\* software unit cost 1, 10 or 12 against the base price 10; hardware 6 or 8
VariableCosts ==
  {[infraCostPerUser |-> R(1), licenseCostPerUser |-> R(0), supportCostPerUnit |-> R(0)],
   [infraCostPerUser |-> R(5), licenseCostPerUser |-> R(3), supportCostPerUnit |-> R(2)],
   [infraCostPerUser |-> R(7), licenseCostPerUser |-> R(3), supportCostPerUnit |-> R(2)]}

CostInputs ==
  {[devCapex |-> u.devCapex,
    launchMarketingCapex |-> u.launchMarketingCapex,
    infraCostPerUser |-> v.infraCostPerUser,
    licenseCostPerUser |-> v.licenseCostPerUser,
    manufacturingCostPerUnit |-> R(4),
    shippingCostPerUnit |-> R(1),
    packagingCostPerUnit |-> R(1),
    supportCostPerUnit |-> v.supportCostPerUnit,
    annualFixedOpex |-> opex] :
     u \in UpfrontCosts, v \in VariableCosts, opex \in {R(0), R(3000)}}

SeqsOfLen(S, lo, hi) == UNION {[1..k -> S] : k \in lo..hi}

MarketInputs ==
  [tamUnitsPerYear : SeqsOfLen({R(0), R(1000)}, 0, MaxLen),
   samPct : {R(100)},
   somPct : {R(100)},
   adoptionPctPerYear : SeqsOfLen({R(50)}, MaxLen - 1, MaxLen)]

RevenueInputs ==
  [basePricePerUnit : {R(10)},
   annualPriceGrowthPct : {R(0), R(50)}]

\* defaultScenarios of the App
Scenarios ==
  {[id |-> "conservative", adoptionMultiplier |-> Frac(3, 5), priceMultiplier |-> Frac(19, 20)],
   [id |-> "base", adoptionMultiplier |-> R(1), priceMultiplier |-> R(1)],
   [id |-> "aggressive", adoptionMultiplier |-> Frac(7, 5), priceMultiplier |-> Frac(21, 20)]}

\* ------------------------------------------------------------------------
\* State: the five arguments, the locals of the loop, the returned value
\* ------------------------------------------------------------------------
VARIABLES general, cost, market, revenue, scenario,
          pc, i, yearly, cumulativeCashFlow, paybackYear, result,
          calls, exported,
          selectedScenarioId, scenarioResults, rendered

args == <<general, cost, market, revenue, scenario>>
vars == <<general, cost, market, revenue, scenario,
          pc, i, yearly, cumulativeCashFlow, paybackYear, result,
          calls, exported,
          selectedScenarioId, scenarioResults, rendered>>
appVars == <<selectedScenarioId, scenarioResults, rendered>>

\* ------------------------------------------------------------------------
\* The pieces of buildScenarioResult
\* ------------------------------------------------------------------------
getVariableCostPerUnitAllFields(productType, c) ==
  RAdd(RAdd(RAdd(RAdd(RAdd(c.infraCostPerUser, c.licenseCostPerUser),
                      c.manufacturingCostPerUnit), c.shippingCostPerUnit),
            c.packagingCostPerUnit), c.supportCostPerUnit)

getVariableCostPerUnit(productType, c) ==
  IF productType = "software"
  THEN RAdd(RAdd(c.infraCostPerUser, c.licenseCostPerUser), c.supportCostPerUnit)
  ELSE RAdd(RAdd(RAdd(c.manufacturingCostPerUnit, c.shippingCostPerUnit),
                 c.packagingCostPerUnit), c.supportCostPerUnit)

UpfrontCapexDevOnly(c) == c.devCapex

UpfrontCapex(c) == RAdd(c.devCapex, c.launchMarketingCapex)

\* let cumulativeCashFlow = -upfrontCapex
SeedCashFlow(c) == RNeg(UpfrontCapex(c))

LoopCondInclusive(idx, years) == idx <= years

\* for (let i = 0; i < years; i++)
LoopCond(idx, years) == idx < years

YearOfZeroBased(yearIndex) == yearIndex

YearOf(yearIndex) == yearIndex + 1

AtRepeatingLast(arr, idx) ==
  IF idx + 1 \in DOMAIN arr THEN arr[idx + 1]
  ELSE IF Len(arr) > 0 THEN arr[Len(arr)] ELSE R(0)

\* arr[idx] ?? 0, idx 0-based
At(arr, idx) == IF idx + 1 \in DOMAIN arr THEN arr[idx + 1] ELSE R(0)

Pct(p) == RDiv(p, R(100))

BasePriceFromYearOne(rev, idx) ==
  RMul(rev.basePricePerUnit,
       RPow(RAdd(R(1), Pct(rev.annualPriceGrowthPct)), idx + 1))

BasePrice(rev, idx) ==
  RMul(rev.basePricePerUnit,
       RPow(RAdd(R(1), Pct(rev.annualPriceGrowthPct)), idx))

PricePerUnitAsPercent(basePrice, sc) == RMul(basePrice, Pct(sc.priceMultiplier))

PricePerUnit(basePrice, sc) == RMul(basePrice, sc.priceMultiplier)

SomUnits(m, idx) ==
  LET tamUnits == At(m.tamUnitsPerYear, idx)
      samUnits == RMul(tamUnits, Pct(m.samPct))
  IN  RMul(samUnits, Pct(m.somPct))

AdoptionPct(m, idx) == Pct(At(m.adoptionPctPerYear, idx))

BaseUnits(m, idx) == RMul(SomUnits(m, idx), AdoptionPct(m, idx))

Units(baseUnits, sc) == RMul(baseUnits, sc.adoptionMultiplier)

MarginPctProfitGuard(profit, revenueYear) ==
  IF RGt(profit, R(0))
  THEN RMul(RDiv(profit, revenueYear), R(100))
  ELSE R(0)

MarginPct(profit, revenueYear) ==
  IF RGt(revenueYear, R(0))
  THEN RMul(RDiv(profit, revenueYear), R(100))
  ELSE R(0)

PaybackLatchOverwriting(pb, cum, yearIndex) ==
  IF RGe(cum, R(0)) THEN Some(YearOf(yearIndex)) ELSE pb

PaybackLatchStrict(pb, cum, yearIndex) ==
  IF pb = None /\ RGt(cum, R(0)) THEN Some(YearOf(yearIndex)) ELSE pb

\* if (paybackYear === null && cumulativeCashFlow >= 0) paybackYear = yearIndex + 1
PaybackLatch(pb, cum, yearIndex) ==
  IF pb = None /\ RGe(cum, R(0)) THEN Some(YearOf(yearIndex)) ELSE pb

\* One pass of the loop body for a year with the given price and units:
\* the YearlyResult pushed, which carries the new cumulativeCashFlow.
YearRow(yearIndex, pricePerUnit, units, unitVariableCost, c, cumBefore) ==
  LET revenueYear == RMul(pricePerUnit, units)
      variableCost == RMul(unitVariableCost, units)
      grossProfit == RSub(revenueYear, variableCost)
      fixedCost == c.annualFixedOpex
      netProfit == RSub(grossProfit, fixedCost)
  IN  [year |-> YearOf(yearIndex),
       pricePerUnit |-> pricePerUnit,
       units |-> units,
       revenue |-> revenueYear,
       variableCost |-> variableCost,
       grossProfit |-> grossProfit,
       grossMarginPct |-> MarginPct(grossProfit, revenueYear),
       fixedCost |-> fixedCost,
       netProfit |-> netProfit,
       netMarginPct |-> MarginPct(netProfit, revenueYear),
       cumulativeCashFlow |-> RAdd(cumBefore, netProfit)]

\* yearly.reduce((s, y) => s + y.revenue, 0)
RECURSIVE ReduceRevenue(_, _, _)
ReduceRevenue(ys, k, s) ==
  IF k > Len(ys) THEN s ELSE ReduceRevenue(ys, k + 1, RAdd(s, ys[k].revenue))

TotalRevenue(ys) == ReduceRevenue(ys, 1, R(0))

\* yearly.reduce((s, y) => s + y.netProfit, 0)
RECURSIVE ReduceNetProfit(_, _, _)
ReduceNetProfit(ys, k, s) ==
  IF k > Len(ys) THEN s ELSE ReduceNetProfit(ys, k + 1, RAdd(s, ys[k].netProfit))

RECURSIVE ReduceGrossProfit(_, _, _)
ReduceGrossProfit(ys, k, s) ==
  IF k > Len(ys) THEN s ELSE ReduceGrossProfit(ys, k + 1, RAdd(s, ys[k].grossProfit))

TotalNetProfitOfGross(ys) == ReduceGrossProfit(ys, 1, R(0))

TotalNetProfit(ys) == ReduceNetProfit(ys, 1, R(0))

ContributionMarginOfGrownPrice(rev, unitVariableCost) ==
  RSub(BasePrice(rev, 1), unitVariableCost)

ContributionMargin(rev, unitVariableCost) ==
  RSub(rev.basePricePerUnit, unitVariableCost)

BreakEvenUnitsNonZeroMargin(upfrontCapex, contributionMargin) ==
  IF contributionMargin # R(0)
  THEN Some(RDiv(upfrontCapex, contributionMargin))
  ELSE None

BreakEvenUnits(upfrontCapex, contributionMargin) ==
  IF RGt(contributionMargin, R(0))
  THEN Some(RDiv(upfrontCapex, contributionMargin))
  ELSE None

\* a paybackYear declared outside the function would survive the call
EntryLocalsStaleLatch(c) ==
  [i |-> 0, yearly |-> <<>>, cumulativeCashFlow |-> SeedCashFlow(c),
   paybackYear |-> paybackYear]

\* Lines 34-39: the locals of one invocation, created at its entry.
EntryLocals(c) ==
  [i |-> 0, yearly |-> <<>>, cumulativeCashFlow |-> SeedCashFlow(c),
   paybackYear |-> None]

\* Lines 90-104: the aggregates and the returned object, from the arguments
\* and the locals at loop exit.
ScenarioResultOf(g, c, r, s, ys, pb) ==
  [scenario |-> s,
   yearly |-> ys,
   totalRevenue |-> TotalRevenue(ys),
   totalNetProfit |-> TotalNetProfit(ys),
   paybackYear |-> pb,
   breakEvenUnits |->
     BreakEvenUnits(UpfrontCapex(c),
                    ContributionMargin(r, getVariableCostPerUnit(g.productType, c)))]

\* ------------------------------------------------------------------------
\* The call
\* ------------------------------------------------------------------------
\* Entry of buildScenarioResult up to the loop: the locals are initialised.
Init ==
  /\ general \in GeneralInputs
  /\ cost \in CostInputs
  /\ market \in MarketInputs
  /\ revenue \in RevenueInputs
  /\ scenario \in Scenarios
  /\ pc = "loop"
  /\ i = 0
  /\ yearly = <<>>
  /\ cumulativeCashFlow = SeedCashFlow(cost)
  /\ paybackYear = None
  /\ result = None
  /\ calls = <<>>
  /\ exported = None
  /\ selectedScenarioId = "base"
  /\ scenarioResults = <<>>
  /\ rendered = None

\* One iteration of the year loop.
LoopIteration ==
  /\ pc = "loop"
  /\ LoopCond(i, general.years)
  /\ LET unitVariableCost == getVariableCostPerUnit(general.productType, cost)
         pricePerUnit == PricePerUnit(BasePrice(revenue, i), scenario)
         units == Units(BaseUnits(market, i), scenario)
         row == YearRow(i, pricePerUnit, units, unitVariableCost, cost,
                        cumulativeCashFlow)
     IN  /\ cumulativeCashFlow' = row.cumulativeCashFlow
         /\ paybackYear' = PaybackLatch(paybackYear, row.cumulativeCashFlow, i)
         /\ yearly' = Append(yearly, row)
  /\ i' = i + 1
  /\ UNCHANGED <<args, pc, result, calls, exported, appVars>>

\* Loop exit: the aggregates and the returned ScenarioResult.
Return ==
  /\ pc = "loop"
  /\ ~LoopCond(i, general.years)
  /\ result' = ScenarioResultOf(general, cost, revenue, scenario, yearly, paybackYear)
  /\ calls' = Append(calls, [args |-> args, result |-> result'])
  /\ pc' = "done"
  /\ UNCHANGED <<args, i, yearly, cumulativeCashFlow, paybackYear, exported, appVars>>

Next == LoopIteration \/ Return

Spec == Init /\ [][Next]_vars

Returned == pc = "done"

\* ------------------------------------------------------------------------
\* A caller that invokes buildScenarioResult several times, as the App does
\* for every scenario and for the sensitivity variants.  calls is the
\* caller's record of the completed calls, in order.
\* ------------------------------------------------------------------------
CallArgs ==
  {a \in [general : GeneralInputs, cost : CostInputs, market : MarketInputs,
          revenue : RevenueInputs, scenario : Scenarios] :
     /\ a.general.productType = "software"
     /\ a.general.years \in {1, 2}
     /\ a.cost.launchMarketingCapex = R(0)
     /\ a.cost.infraCostPerUser = R(1)
     /\ a.cost.annualFixedOpex = R(3000)
     /\ Len(a.market.tamUnitsPerYear) = MaxLen
     /\ \A k \in 1..MaxLen : a.market.tamUnitsPerYear[k] = R(1000)
     /\ Len(a.market.adoptionPctPerYear) = MaxLen
     /\ a.revenue.annualPriceGrowthPct = R(0)
     /\ a.scenario.id \in {"base", "conservative"}}

InitCalls ==
  /\ \E a \in CallArgs :
       /\ general = a.general
       /\ cost = a.cost
       /\ market = a.market
       /\ revenue = a.revenue
       /\ scenario = a.scenario
  /\ pc = "loop"
  /\ i = 0
  /\ yearly = <<>>
  /\ cumulativeCashFlow = SeedCashFlow(cost)
  /\ paybackYear = None
  /\ result = None
  /\ calls = <<>>
  /\ exported = None
  /\ selectedScenarioId = "base"
  /\ scenarioResults = <<>>
  /\ rendered = None

\* The next invocation: new arguments, and locals created afresh (lines 34-39).
Call ==
  /\ pc = "done"
  /\ Len(calls) < MaxCalls
  /\ \E a \in CallArgs :
       /\ general' = a.general
       /\ cost' = a.cost
       /\ market' = a.market
       /\ revenue' = a.revenue
       /\ scenario' = a.scenario
       /\ LET fresh == EntryLocals(a.cost)
          IN  /\ i' = fresh.i
              /\ yearly' = fresh.yearly
              /\ cumulativeCashFlow' = fresh.cumulativeCashFlow
              /\ paybackYear' = fresh.paybackYear
  /\ pc' = "loop"
  /\ result' = None
  /\ UNCHANGED <<calls, exported, appVars>>

\* ------------------------------------------------------------------------
\* Calls on a market whose per-year sequences cover the whole horizon, the
\* case the App's defaults are in.
\* ------------------------------------------------------------------------
FullMarkets ==
  {m \in MarketInputs :
     /\ Len(m.tamUnitsPerYear) = MaxLen
     /\ Len(m.adoptionPctPerYear) = MaxLen
     /\ \A k \in 1..MaxLen : m.tamUnitsPerYear[k] = R(1000)}

InitFullMarket ==
  /\ market \in FullMarkets
  /\ general \in GeneralInputs
  /\ cost \in CostInputs
  /\ revenue \in RevenueInputs
  /\ scenario \in Scenarios
  /\ pc = "loop"
  /\ i = 0
  /\ yearly = <<>>
  /\ cumulativeCashFlow = SeedCashFlow(cost)
  /\ paybackYear = None
  /\ result = None
  /\ calls = <<>>
  /\ exported = None
  /\ selectedScenarioId = "base"
  /\ scenarioResults = <<>>
  /\ rendered = None

SpecFullMarket == InitFullMarket /\ [][Next]_vars

NextCalls == LoopIteration \/ Return \/ Call

SpecCalls == InitCalls /\ [][NextCalls]_vars

\* ------------------------------------------------------------------------
\* The export collaborators (src/unnamed/part_000).  A table is a sequence of
\* records, each a function from column name to cell.
\* ------------------------------------------------------------------------
\* String(v): the decimal text of a number
Str(v) == [string |-> v]

\* v.toFixed(digits): the decimal text of v rounded to that many fraction
\* digits, ties away from zero
Pow10(digits) == IF digits = 0 THEN 1 ELSE IF digits = 1 THEN 10 ELSE 100

ToFixed(v, digits) ==
  LET scale == Pow10(digits)
      mag == (2 * Abs(v.n) * scale + v.d) \div (2 * v.d)
  IN  [string |-> Norm(IF v.n < 0 THEN -mag ELSE mag, scale), digits |-> digits]

buildRowsWithoutCashFlow(res) ==
  [k \in 1..Len(res.yearly) |->
     LET y == res.yearly[k] IN
       ("Year" :> R(y.year)) @@ ("Price per unit" :> y.pricePerUnit)
         @@ ("Units" :> y.units) @@ ("Revenue" :> y.revenue)
         @@ ("Variable cost" :> y.variableCost) @@ ("Gross profit" :> y.grossProfit)
         @@ ("Gross margin %" :> y.grossMarginPct) @@ ("Fixed cost" :> y.fixedCost)
         @@ ("Net profit" :> y.netProfit) @@ ("Net margin %" :> y.netMarginPct)]

buildRows(res) ==
  [k \in 1..Len(res.yearly) |->
     LET y == res.yearly[k] IN
       ("Year" :> R(y.year)) @@ ("Price per unit" :> y.pricePerUnit)
         @@ ("Units" :> y.units) @@ ("Revenue" :> y.revenue)
         @@ ("Variable cost" :> y.variableCost) @@ ("Gross profit" :> y.grossProfit)
         @@ ("Gross margin %" :> y.grossMarginPct) @@ ("Fixed cost" :> y.fixedCost)
         @@ ("Net profit" :> y.netProfit) @@ ("Net margin %" :> y.netMarginPct)
         @@ ("Cumulative cash flow" :> y.cumulativeCashFlow)]

\* header = Object.keys(rows[0] ?? {}); one line per row with String(r[h])
\* for every h of the header
CSVFile(res) ==
  LET rows == buildRows(res)
      header == IF Len(rows) > 0 THEN DOMAIN rows[1] ELSE {}
  IN  [format |-> "csv",
       header |-> header,
       records |-> [k \in 1..Len(rows) |-> [h \in header |-> Str(rows[k][h])]]]

\* XLSX.utils.json_to_sheet(rows): one sheet row per object, one column per key
XLSXFile(res) ==
  LET rows == buildRows(res)
  IN  [format |-> "xlsx",
       header |-> UNION {DOMAIN rows[k] : k \in 1..Len(rows)},
       records |-> rows]

PDFHead == {"Year", "Price", "Units", "Revenue", "Net profit", "Net margin"}

PDFFile(res) ==
  [format |-> "pdf",
   summary |->
     [totalRevenue |-> ToFixed(res.totalRevenue, 0),
      totalNetProfit |-> ToFixed(res.totalNetProfit, 0),
      paybackYear |->
        IF res.paybackYear # None /\ res.paybackYear.value # 0
        THEN <<"Year ", res.paybackYear.value>> ELSE <<"Not reached">>],
   header |-> PDFHead,
   records |->
     [k \in 1..Len(res.yearly) |->
        LET y == res.yearly[k] IN
          ("Year" :> <<"Y", y.year>>) @@ ("Price" :> ToFixed(y.pricePerUnit, 2))
            @@ ("Units" :> ToFixed(y.units, 0)) @@ ("Revenue" :> ToFixed(y.revenue, 0))
            @@ ("Net profit" :> ToFixed(y.netProfit, 0))
            @@ ("Net margin" :> <<ToFixed(y.netMarginPct, 1), "%">>)]]

exportToCSV ==
  /\ pc = "done"
  /\ exported' = CSVFile(result)
  /\ UNCHANGED <<args, pc, i, yearly, cumulativeCashFlow, paybackYear, result, calls, appVars>>

exportToXLSX ==
  /\ pc = "done"
  /\ exported' = XLSXFile(result)
  /\ UNCHANGED <<args, pc, i, yearly, cumulativeCashFlow, paybackYear, result, calls, appVars>>

exportToPDF ==
  /\ pc = "done"
  /\ exported' = PDFFile(result)
  /\ UNCHANGED <<args, pc, i, yearly, cumulativeCashFlow, paybackYear, result, calls, appVars>>

NextExport == Next \/ exportToCSV \/ exportToXLSX \/ exportToPDF

SpecExport == Init /\ [][NextExport]_vars

\* ------------------------------------------------------------------------
\* buildScenarioResult as a function of its arguments: the same loop, run to
\* its exit in one evaluation.  Used where a second call is needed.
\* ------------------------------------------------------------------------
RECURSIVE IterationsFrom(_, _)
IterationsFrom(idx, years) ==
  IF LoopCond(idx, years) THEN IterationsFrom(idx + 1, years) ELSE idx

\* lines 64-68 and 75-87: the locals once the row of iteration idx is known
LocalsWithRow(prev, idx, row) ==
  [yearly |-> Append(prev.yearly, row),
   cumulativeCashFlow |-> row.cumulativeCashFlow,
   paybackYear |-> PaybackLatch(prev.paybackYear, row.cumulativeCashFlow, idx)]

\* one pass of the loop body at index idx from the locals prev
LocalsAfterIteration(g, c, m, r, s, idx, prev) ==
  LocalsWithRow(prev, idx,
                YearRow(idx, PricePerUnit(BasePrice(r, idx), s),
                        Units(BaseUnits(m, idx), s),
                        getVariableCostPerUnit(g.productType, c), c,
                        prev.cumulativeCashFlow))

\* the locals after n iterations of the loop
RECURSIVE LoopLocals(_, _, _, _, _, _)
LoopLocals(g, c, m, r, s, n) ==
  IF n = 0
  THEN [yearly |-> <<>>, cumulativeCashFlow |-> SeedCashFlow(c), paybackYear |-> None]
  ELSE LocalsAfterIteration(g, c, m, r, s, n - 1, LoopLocals(g, c, m, r, s, n - 1))

buildScenarioResult(g, c, m, r, s) ==
  LET exit == LoopLocals(g, c, m, r, s, IterationsFrom(0, g.years))
  IN  ScenarioResultOf(g, c, r, s, exit.yearly, exit.paybackYear)

\* The stepwise call and the function form return the same value.
StepsAgreeWithFunction ==
  Returned => result = buildScenarioResult(general, cost, market, revenue, scenario)


\* ------------------------------------------------------------------------
\* The App (src/src/App.tsx): general, cost, market and revenue are React
\* state, scenarioResults is memoized on them, and every handler ends with a
\* render.  The parameter values are the small ones of this model, entered
\* through the inputs; the horizon starts at the default YEARS.
\* ------------------------------------------------------------------------
YEARS == 5

\* defaultScenarios, in order
scenarios ==
  <<CHOOSE sc \in Scenarios : sc.id = "conservative",
    CHOOSE sc \in Scenarios : sc.id = "base",
    CHOOSE sc \in Scenarios : sc.id = "aggressive">>

ScenarioIds == {scenarios[k].id : k \in 1..Len(scenarios)}

\* Number(e.target.value) for the texts typed into a number input
NaN == [tag |-> "NaN"]
HorizonTexts == {"", "0", "3", "-3", "abc"}
NumberOfText(text) ==
  CASE text = "" -> Some(0)
    [] text = "0" -> Some(0)
    [] text = "3" -> Some(3)
    [] text = "-3" -> Some(-3)
    [] OTHER -> NaN

\* x || fallback on numbers: NaN and 0 are falsy
OrElse(x, fallback) == IF x = NaN \/ x.value = 0 THEN fallback ELSE x.value

\* a "number | null" used as a condition: null and 0 (zero: its
\* representation, integer or rational) are falsy
Truthy(x, zero) == x # None /\ x.value # zero

ScenarioResultsDepsWithoutRevenue == {"general", "cost", "market", "scenarios"}

\* the dependency list of useMemo for scenarioResults
ScenarioResultsDeps == {"general", "cost", "market", "revenue", "scenarios"}

\* useMemo: recompute when a dependency is a new object, else keep the value
UseMemo(previous, replaced, deps, fresh) ==
  IF replaced \cap deps # {} THEN fresh ELSE previous

ComputeScenarioResults(g, c, m, r) ==
  [k \in 1..Len(scenarios) |-> buildScenarioResult(g, c, m, r, scenarios[k])]

\* scenarios.find((s) => s.id === selectedScenarioId) ?? scenarios[1]
SelectedScenario(selId) ==
  IF \E k \in 1..Len(scenarios) : scenarios[k].id = selId
  THEN scenarios[CHOOSE k \in 1..Len(scenarios) : scenarios[k].id = selId]
  ELSE scenarios[2]

\* scenarioResults.find((r) => r.scenario.id === selectedScenario.id)
CurrentResult(results, selId) ==
  results[CHOOSE k \in 1..Len(results) :
            results[k].scenario.id = SelectedScenario(selId).id]

PaybackTile(res) ==
  IF Truthy(res.paybackYear, 0) THEN [text |-> "Year", year |-> res.paybackYear.value]
  ELSE [text |-> "Not reached"]

BreakEvenTile(res) ==
  IF Truthy(res.breakEvenUnits, R(0))
  THEN [text |-> "number", shown |-> ToFixed(res.breakEvenUnits.value, 0)]
  ELSE [text |-> "N/A"]

\* the dependency list of useMemo for sensitivityData
SensitivityDeps ==
  {"currentResult.totalNetProfit", "general", "cost", "market", "revenue",
   "selectedScenario"}

delta == Frac(1, 10)

\* the three bars: net profit at -10% price, at the current result, at +10%
ComputeSensitivity(g, c, m, r, sel, currentResult) ==
  LET computeNet(multiplier) ==
        buildScenarioResult(g, c, m, r,
          [id |-> "temp",
           adoptionMultiplier |-> sel.adoptionMultiplier,
           priceMultiplier |-> RMul(sel.priceMultiplier, multiplier)]).totalNetProfit
  IN  <<computeNet(RSub(R(1), delta)),
        currentResult.totalNetProfit,
        computeNet(RAdd(R(1), delta))>>

\* what one render shows: the current result, the two summary tiles and the
\* sensitivity bars
View(currentResult, sensitivityData) ==
  [currentResult |-> currentResult,
   paybackTile |-> PaybackTile(currentResult),
   breakEvenTile |-> BreakEvenTile(currentResult),
   sensitivityData |-> sensitivityData]

\* the dependencies of sensitivityData that differ from the last render
SensitivityReplaced(replaced, selId, currentResult) ==
  replaced
    \cup (IF SelectedScenario(selId) # SelectedScenario(selectedScenarioId)
          THEN {"selectedScenario"} ELSE {})
    \cup (IF currentResult.totalNetProfit # rendered.currentResult.totalNetProfit
          THEN {"currentResult.totalNetProfit"} ELSE {})

\* a render after the state slots in replaced were set to new objects
Render(g, c, m, r, selId, replaced) ==
  /\ scenarioResults' = UseMemo(scenarioResults, replaced, ScenarioResultsDeps,
                                ComputeScenarioResults(g, c, m, r))
  /\ rendered' =
       View(CurrentResult(scenarioResults', selId),
            UseMemo(rendered.sensitivityData,
                    SensitivityReplaced(replaced, selId,
                                        CurrentResult(scenarioResults', selId)),
                    SensitivityDeps,
                    ComputeSensitivity(g, c, m, r, SelectedScenario(selId),
                                       CurrentResult(scenarioResults', selId))))

engineIdle == <<scenario, pc, i, yearly, cumulativeCashFlow, paybackYear,
                result, calls, exported>>

InitApp ==
  /\ general = [productType |-> "software", years |-> YEARS]
  /\ cost = [devCapex |-> R(1000), launchMarketingCapex |-> R(0),
             infraCostPerUser |-> R(1), licenseCostPerUser |-> R(0),
             manufacturingCostPerUnit |-> R(4), shippingCostPerUnit |-> R(1),
             packagingCostPerUnit |-> R(1), supportCostPerUnit |-> R(2),
             annualFixedOpex |-> R(3000)]
  /\ market = [tamUnitsPerYear |-> <<R(1000), R(1000), R(1000)>>,
               samPct |-> R(100), somPct |-> R(100),
               adoptionPctPerYear |-> <<R(50), R(50), R(50)>>]
  /\ revenue = [basePricePerUnit |-> R(10), annualPriceGrowthPct |-> R(0)]
  /\ selectedScenarioId = "base"
  /\ scenarioResults = ComputeScenarioResults(general, cost, market, revenue)
  /\ rendered =
       View(CurrentResult(scenarioResults, selectedScenarioId),
            ComputeSensitivity(general, cost, market, revenue,
                               SelectedScenario(selectedScenarioId),
                               CurrentResult(scenarioResults, selectedScenarioId)))
  /\ scenario = scenarios[2]
  /\ pc = "app"
  /\ i = 0
  /\ yearly = <<>>
  /\ cumulativeCashFlow = R(0)
  /\ paybackYear = None
  /\ result = None
  /\ calls = <<>>
  /\ exported = None

\* SelectInput "Product type"
EditProductType ==
  \E v \in {"software", "hardware"} :
    /\ general' = [general EXCEPT !.productType = v]
    /\ Render(general', cost, market, revenue, selectedScenarioId, {"general"})
    /\ UNCHANGED <<cost, market, revenue, selectedScenarioId, engineIdle>>

\* NumberInput "Horizon (years)": onChange(Number(text) || 0), then
\* setGeneral({ ...general, years: v || YEARS })
EditHorizon ==
  \E text \in HorizonTexts :
    LET v == OrElse(NumberOfText(text), 0)
    IN  /\ general' = [general EXCEPT !.years = OrElse(Some(v), YEARS)]
        /\ Render(general', cost, market, revenue, selectedScenarioId, {"general"})
        /\ UNCHANGED <<cost, market, revenue, selectedScenarioId, engineIdle>>

\* CurrencyInput of a cost field: setCost({ ...cost, field: v }); the
\* per-user inputs are rendered for a software product only
EditCost ==
  \E edit \in ({"devCapex"} \X {R(0), R(1000)})
                \cup ({"annualFixedOpex"} \X {R(0), R(3000)})
                \cup (IF general.productType = "software"
                      THEN {"infraCostPerUser"} \X {R(1), R(10)}
                      ELSE {}) :
    /\ cost' = [cost EXCEPT ![edit[1]] = edit[2]]
    /\ Render(general, cost', market, revenue, selectedScenarioId, {"cost"})
    /\ UNCHANGED <<general, market, revenue, selectedScenarioId, engineIdle>>

\* NumberInput Y1 of the TAM row (rendered for i < general.years):
\* arr = [...tamUnitsPerYear]; arr[0] = v; setMarket({ ...market, ... })
EditTam ==
  /\ 0 < general.years
  /\ \E v \in {R(0), R(1000)} :
       /\ market' = [market EXCEPT !.tamUnitsPerYear[1] = v]
       /\ Render(general, cost, market', revenue, selectedScenarioId, {"market"})
  /\ UNCHANGED <<general, cost, revenue, selectedScenarioId, engineIdle>>

\* NumberInput "Annual price growth (%)"
EditRevenue ==
  \E v \in {R(0), R(50)} :
    /\ revenue' = [revenue EXCEPT !.annualPriceGrowthPct = v]
    /\ Render(general, cost, market, revenue', selectedScenarioId, {"revenue"})
    /\ UNCHANGED <<general, cost, market, selectedScenarioId, engineIdle>>

\* the scenario buttons: setSelectedScenarioId(s.id)
SelectScenario ==
  \E id \in ScenarioIds :
    /\ selectedScenarioId' = id
    /\ Render(general, cost, market, revenue, id, {})
    /\ UNCHANGED <<general, cost, market, revenue, engineIdle>>

NextApp ==
  \/ EditProductType
  \/ EditHorizon
  \/ EditCost
  \/ EditTam
  \/ EditRevenue
  \/ SelectScenario

SpecApp == InitApp /\ [][NextApp]_vars

\* ------------------------------------------------------------------------
\* Properties of the returned ScenarioResult
\* ------------------------------------------------------------------------
Zero == R(0)
IsNumber(x) == x.tag = "number"
CashFlowAt(k) == result.yearly[k].cumulativeCashFlow
UpfrontOfArgs == RAdd(cost.devCapex, cost.launchMarketingCapex)

\* sum of f over the entries 1..k of ys, taken from the last entry backwards
RECURSIVE SumNetProfitUpTo(_, _)
SumNetProfitUpTo(ys, k) ==
  IF k = 0 THEN Zero ELSE RAdd(ys[k].netProfit, SumNetProfitUpTo(ys, k - 1))

RECURSIVE SumRevenueUpTo(_, _)
SumRevenueUpTo(ys, k) ==
  IF k = 0 THEN Zero ELSE RAdd(ys[k].revenue, SumRevenueUpTo(ys, k - 1))

\* C1: the returned yearly sequence has exactly general.years entries and
\* entry k (0-based) has year k+1, so the years ascend from 1.
C1_YearlyLengthAndYears ==
  Returned =>
    /\ Len(result.yearly) = general.years
    /\ \A k \in 1..Len(result.yearly) : result.yearly[k].year = k

C1_Witness ==
  /\ Returned
  /\ general.years = MaxYears
  /\ Len(result.yearly) = MaxYears
  /\ result.yearly[MaxYears].year = MaxYears

\* C2: first crossing - when paybackYear is a year p, the cumulative cash
\* flow of year p is >= 0 and that of every earlier year is < 0.
C2_FirstCrossing ==
  (Returned /\ result.paybackYear # None) =>
    LET p == result.paybackYear.value IN
      /\ p \in 1..Len(result.yearly)
      /\ RGe(CashFlowAt(p), Zero)
      /\ \A q \in 1..(p - 1) : RLt(CashFlowAt(q), Zero)

C2_Witness ==
  /\ Returned
  /\ result.paybackYear # None
  /\ result.paybackYear.value = 2
  /\ RLt(CashFlowAt(1), Zero)
  /\ Len(result.yearly) = 3
  /\ RGe(CashFlowAt(3), Zero)

\* C3: paybackYear is the absent marker exactly when no yearly entry has a
\* cumulative cash flow >= 0; otherwise it is a year of the horizon, never a
\* sentinel number.
C3_PaybackAbsentIff ==
  Returned =>
    /\ result.paybackYear = None
         <=> (\A k \in 1..Len(result.yearly) : RLt(CashFlowAt(k), Zero))
    /\ result.paybackYear # None =>
         /\ IsNumber(result.paybackYear)
         /\ result.paybackYear.value \in 1..general.years

C3_Witness ==
  /\ Returned
  /\ general.years = MaxYears
  /\ result.paybackYear = None
  /\ \A k \in 1..Len(result.yearly) : RLt(CashFlowAt(k), Zero)

\* C4: the cumulative cash flow of year k is -(devCapex +
\* launchMarketingCapex) plus the net profits of years 1..k; the last entry
\* is that seed plus totalNetProfit; the sequence does not decrease while
\* every net profit is >= 0.
C4_CumulativeRunningTotal ==
  Returned =>
    LET ys == result.yearly
        seed == RNeg(UpfrontOfArgs)
    IN  /\ \A k \in 1..Len(ys) :
             CashFlowAt(k) = RAdd(seed, SumNetProfitUpTo(ys, k))
        /\ Len(ys) >= 1 =>
             CashFlowAt(Len(ys)) = RAdd(seed, result.totalNetProfit)
        /\ (\A k \in 1..Len(ys) : RGe(ys[k].netProfit, Zero)) =>
             /\ Len(ys) >= 1 => RGe(CashFlowAt(1), seed)
             /\ \A k \in 2..Len(ys) : RGe(CashFlowAt(k), CashFlowAt(k - 1))

C4_Witness ==
  /\ Returned
  /\ Len(result.yearly) = MaxYears
  /\ RGt(UpfrontOfArgs, R(1000))
  /\ \A k \in 1..Len(result.yearly) : RGt(result.yearly[k].netProfit, Zero)
  /\ RGt(CashFlowAt(MaxYears), CashFlowAt(1))

\* entry idx (0-based) of a per-year input sequence, 0 when it is missing
Entry(arr, idx) == IF idx < Len(arr) THEN arr[idx + 1] ELSE Zero

RECURSIVE Compound(_, _)
Compound(b, k) == IF k = 0 THEN R(1) ELSE RMul(Compound(b, k - 1), b)

SelectedUnitVariableCost == getVariableCostPerUnit(general.productType, cost)

\* the example of the specification
ExampleArgs ==
  /\ general.years = 2
  /\ general.productType = "software"
  /\ cost.devCapex = R(1000)
  /\ cost.launchMarketingCapex = Zero
  /\ cost.infraCostPerUser = R(1)
  /\ cost.licenseCostPerUser = Zero
  /\ cost.supportCostPerUnit = Zero
  /\ cost.annualFixedOpex = Zero
  /\ market.tamUnitsPerYear = <<R(1000), R(1000)>>
  /\ market.samPct = R(100)
  /\ market.somPct = R(100)
  /\ market.adoptionPctPerYear = <<R(50), R(50)>>
  /\ revenue.basePricePerUnit = R(10)
  /\ revenue.annualPriceGrowthPct = Zero
  /\ scenario.adoptionMultiplier = R(1)
  /\ scenario.priceMultiplier = R(1)

\* C5: for every year index the entry carries the price, units, revenue,
\* variable cost, gross profit, fixed cost and net profit of the per-year
\* formulas; the example of the specification yields units 500, revenue
\* 5000, net profit 4500 and cumulative 3500 in year 1, 8000 in year 2.
C5_PerYearFormulas ==
  Returned =>
    /\ \A k \in 1..Len(result.yearly) :
         LET y == result.yearly[k]
             idx == k - 1
             growth == RAdd(R(1), RDiv(revenue.annualPriceGrowthPct, R(100)))
             price == RMul(RMul(revenue.basePricePerUnit, Compound(growth, idx)),
                           scenario.priceMultiplier)
             tam == Entry(market.tamUnitsPerYear, idx)
             adoption == Entry(market.adoptionPctPerYear, idx)
             units ==
               RMul(RDiv(RMul(RDiv(RMul(RDiv(RMul(tam, market.samPct), R(100)),
                                        market.somPct), R(100)),
                              adoption), R(100)),
                    scenario.adoptionMultiplier)
         IN  /\ y.pricePerUnit = price
             /\ y.units = units
             /\ y.revenue = RMul(price, units)
             /\ y.variableCost = RMul(SelectedUnitVariableCost, units)
             /\ y.grossProfit = RSub(y.revenue, y.variableCost)
             /\ y.fixedCost = cost.annualFixedOpex
             /\ y.netProfit = RSub(y.grossProfit, y.fixedCost)
    /\ ExampleArgs =>
         /\ result.yearly[1].pricePerUnit = R(10)
         /\ result.yearly[1].units = R(500)
         /\ result.yearly[1].revenue = R(5000)
         /\ result.yearly[1].variableCost = R(500)
         /\ result.yearly[1].grossProfit = R(4500)
         /\ result.yearly[1].fixedCost = Zero
         /\ result.yearly[1].netProfit = R(4500)
         /\ result.yearly[1].cumulativeCashFlow = R(3500)
         /\ result.yearly[2].cumulativeCashFlow = R(8000)

C5_Witness ==
  /\ Returned
  /\ ExampleArgs
  /\ Len(result.yearly) = 2
  /\ result.yearly[2].revenue = R(5000)

\* C6: totalRevenue is the sum of the revenue of all yearly entries and
\* totalNetProfit the sum of their net profit.
C6_TotalsAreSums ==
  Returned =>
    /\ result.totalRevenue = SumRevenueUpTo(result.yearly, Len(result.yearly))
    /\ result.totalNetProfit = SumNetProfitUpTo(result.yearly, Len(result.yearly))

C6_Witness ==
  /\ Returned
  /\ Len(result.yearly) = MaxYears
  /\ \A k \in 1..MaxYears : RGt(result.yearly[k].revenue, Zero)
  /\ RGt(cost.annualFixedOpex, Zero)
  /\ RGt(result.totalRevenue, result.yearly[1].revenue)
  /\ RLt(result.totalNetProfit, result.totalRevenue)

\* C7: both margin percentages are 0 in a year whose revenue is 0, whatever
\* the sign of the profits; with revenue > 0 they are profit / revenue * 100.
C7_MarginPolicy ==
  Returned =>
    \A k \in 1..Len(result.yearly) :
      LET y == result.yearly[k] IN
        /\ y.revenue = Zero =>
             y.grossMarginPct = Zero /\ y.netMarginPct = Zero
        /\ RGt(y.revenue, Zero) =>
             /\ y.grossMarginPct = RMul(RDiv(y.grossProfit, y.revenue), R(100))
             /\ y.netMarginPct = RMul(RDiv(y.netProfit, y.revenue), R(100))

C7_Witness ==
  /\ Returned
  /\ \E k \in 1..Len(result.yearly) :
       /\ result.yearly[k].revenue = Zero
       /\ RLt(result.yearly[k].netProfit, Zero)
       /\ result.yearly[k].netMarginPct = Zero
  /\ \E k \in 1..Len(result.yearly) :
       /\ RGt(result.yearly[k].revenue, Zero)
       /\ RLt(result.yearly[k].netMarginPct, Zero)
       /\ RGt(result.yearly[k].grossMarginPct, Zero)

\* C8: breakEvenUnits is absent whenever basePricePerUnit <= the unit
\* variable cost, and otherwise is (devCapex + launchMarketingCapex) /
\* (basePricePerUnit - unit variable cost).
C8_BreakEvenUnits ==
  Returned =>
    IF RLe(revenue.basePricePerUnit, SelectedUnitVariableCost)
    THEN result.breakEvenUnits = None
    ELSE result.breakEvenUnits =
           Some(RDiv(UpfrontOfArgs,
                     RSub(revenue.basePricePerUnit, SelectedUnitVariableCost)))

C8_Witness ==
  /\ Returned
  /\ RGt(UpfrontOfArgs, Zero)
  /\ RLt(revenue.basePricePerUnit, SelectedUnitVariableCost)
  /\ result.breakEvenUnits = None

\* The projection of the same parameters with no scenario scaling: units are
\* the SOM units times the adoption fraction, the price is the compounded
\* base price.
RECURSIVE BaselineYearly(_)
BaselineYearly(k) ==
  IF k = 0 THEN <<>>
  ELSE LET prev == BaselineYearly(k - 1)
           cumBefore == IF k = 1 THEN RNeg(UpfrontOfArgs)
                                 ELSE prev[k - 1].cumulativeCashFlow
       IN  Append(prev, YearRow(k - 1, BasePrice(revenue, k - 1),
                                BaseUnits(market, k - 1),
                                SelectedUnitVariableCost, cost, cumBefore))

FirstNonNegative(ys) ==
  LET crossed == {k \in 1..Len(ys) : RGe(ys[k].cumulativeCashFlow, Zero)}
  IN  IF crossed = {} THEN None
      ELSE Some(CHOOSE k \in crossed : \A j \in crossed : k <= j)

\* C9: with adoptionMultiplier = 1 and priceMultiplier = 1 the result is the
\* unscaled baseline projection: every yearly field, both totals, paybackYear
\* and breakEvenUnits.
C9_UnitMultipliersAreBaseline ==
  (Returned /\ scenario.adoptionMultiplier = R(1) /\ scenario.priceMultiplier = R(1)) =>
    LET base == BaselineYearly(general.years) IN
      /\ result.yearly = base
      /\ result.totalRevenue = SumRevenueUpTo(base, Len(base))
      /\ result.totalNetProfit = SumNetProfitUpTo(base, Len(base))
      /\ result.paybackYear = FirstNonNegative(base)
      /\ result.breakEvenUnits =
           (IF RGt(revenue.basePricePerUnit, SelectedUnitVariableCost)
            THEN Some(RDiv(UpfrontOfArgs,
                           RSub(revenue.basePricePerUnit, SelectedUnitVariableCost)))
            ELSE None)

C9_Witness ==
  /\ Returned
  /\ scenario.adoptionMultiplier = R(1)
  /\ scenario.priceMultiplier = R(1)
  /\ Len(result.yearly) = MaxYears
  /\ RGt(result.yearly[MaxYears].units, Zero)
  /\ RGt(result.yearly[MaxYears].pricePerUnit, revenue.basePricePerUnit)

\* C10: with a horizon of 0 the yearly sequence is empty, paybackYear is
\* absent (also when the upfront capex is 0), both totals are 0 and
\* breakEvenUnits is computed from the contribution margin as for any horizon.
C10_ZeroHorizon ==
  (Returned /\ general.years = 0) =>
    /\ result.yearly = <<>>
    /\ result.paybackYear = None
    /\ result.totalRevenue = Zero
    /\ result.totalNetProfit = Zero
    /\ result.breakEvenUnits =
         (IF RGt(revenue.basePricePerUnit, SelectedUnitVariableCost)
          THEN Some(RDiv(UpfrontOfArgs,
                         RSub(revenue.basePricePerUnit, SelectedUnitVariableCost)))
          ELSE None)

C10_Witness ==
  /\ Returned
  /\ general.years = 0
  /\ UpfrontOfArgs = Zero
  /\ result.paybackYear = None
  /\ result.breakEvenUnits = Some(Zero)

\* C11: when tamUnitsPerYear or adoptionPctPerYear is shorter than the
\* horizon, each year past the end of either sequence has units 0, revenue 0,
\* variable cost 0 and net profit -annualFixedOpex, and the result still has
\* one entry per year of the horizon.
C11_MissingEntriesAreZero ==
  Returned =>
    /\ Len(result.yearly) = general.years
    /\ \A k \in 1..Len(result.yearly) :
         (k > Len(market.tamUnitsPerYear) \/ k > Len(market.adoptionPctPerYear)) =>
           /\ result.yearly[k].units = Zero
           /\ result.yearly[k].revenue = Zero
           /\ result.yearly[k].variableCost = Zero
           /\ result.yearly[k].netProfit = RNeg(cost.annualFixedOpex)

C11_Witness ==
  /\ Returned
  /\ general.years = MaxYears
  /\ Len(market.adoptionPctPerYear) = MaxYears - 1
  /\ Len(market.tamUnitsPerYear) = MaxYears
  /\ market.tamUnitsPerYear[MaxYears] = R(1000)
  /\ RGt(cost.annualFixedOpex, Zero)
  /\ RGt(result.yearly[MaxYears - 1].units, Zero)
  /\ result.yearly[MaxYears].units = Zero
  /\ result.yearly[MaxYears].netProfit = RNeg(cost.annualFixedOpex)

\* the cost records that differ from c in one cost field of the product
\* type that is not selected
AltCost == R(9)
OtherTypeVariants(productType, c) ==
  IF productType = "software"
  THEN {[c EXCEPT !.manufacturingCostPerUnit = AltCost],
        [c EXCEPT !.shippingCostPerUnit = AltCost],
        [c EXCEPT !.packagingCostPerUnit = AltCost]}
  ELSE {[c EXCEPT !.infraCostPerUser = AltCost],
        [c EXCEPT !.licenseCostPerUser = AltCost]}

\* C12: the unit variable cost is infra + license + support for software and
\* manufacturing + shipping + packaging + support for hardware, the same in
\* every year of a call; a call that differs only in a cost field of the
\* other product type returns the same ScenarioResult.
C12_VariableCostByProductType ==
  Returned =>
    LET selected ==
          IF general.productType = "software"
          THEN RAdd(cost.infraCostPerUser,
                    RAdd(cost.licenseCostPerUser, cost.supportCostPerUnit))
          ELSE RAdd(cost.manufacturingCostPerUnit,
                    RAdd(cost.shippingCostPerUnit,
                         RAdd(cost.packagingCostPerUnit, cost.supportCostPerUnit)))
    IN  /\ \A k \in 1..Len(result.yearly) :
             result.yearly[k].variableCost = RMul(selected, result.yearly[k].units)
        /\ \A other \in OtherTypeVariants(general.productType, cost) :
             buildScenarioResult(general, other, market, revenue, scenario) = result

C12_Witness ==
  /\ Returned
  /\ general.productType = "hardware"
  /\ cost.infraCostPerUser = R(7)
  /\ cost.licenseCostPerUser = R(3)
  /\ Len(result.yearly) = MaxYears
  /\ \A k \in 1..MaxYears :
       /\ RGt(result.yearly[k].units, Zero)
       /\ result.yearly[k].variableCost = RMul(R(8), result.yearly[k].units)

\* C13: a call leaves its five arguments unchanged, and two completed calls
\* with equal arguments returned equal results, whatever calls ran before or
\* between them.
C13_Pure ==
  /\ [][pc = "loop" => args' = args]_vars
  /\ [](\A a, b \in 1..Len(calls) :
          calls[a].args = calls[b].args => calls[a].result = calls[b].result)

C13_Witness ==
  /\ Len(calls) = 3
  /\ calls[1].args = calls[3].args
  /\ calls[2].args # calls[1].args
  /\ calls[1].result = calls[3].result
  /\ calls[1].result.paybackYear = None
  /\ calls[2].result.paybackYear # None
  /\ calls[3].args = args

\* the column of each exported table that holds a YearlyResult field
FullColumns ==
  [year |-> "Year", pricePerUnit |-> "Price per unit", units |-> "Units",
   revenue |-> "Revenue", variableCost |-> "Variable cost",
   grossProfit |-> "Gross profit", grossMarginPct |-> "Gross margin %",
   fixedCost |-> "Fixed cost", netProfit |-> "Net profit",
   netMarginPct |-> "Net margin %", cumulativeCashFlow |-> "Cumulative cash flow"]

PDFColumns ==
  [year |-> "Year", pricePerUnit |-> "Price", units |-> "Units",
   revenue |-> "Revenue", netProfit |-> "Net profit", netMarginPct |-> "Net margin"]

YearlyFields == DOMAIN FullColumns

OneRecordPerYear ==
  /\ Len(exported.records) = Len(result.yearly)
  /\ \A k \in 1..Len(result.yearly) :
       exported.records[k]["Year"] =
         (IF exported.format = "pdf" THEN <<"Y", k>>
          ELSE IF exported.format = "csv" THEN Str(R(k)) ELSE R(k))

\* the fields of the year's entry that record k of the export carries
FieldsCarried(k) ==
  LET cols == IF exported.format = "pdf" THEN PDFColumns ELSE FullColumns
  IN  {f \in DOMAIN cols : cols[f] \in DOMAIN exported.records[k]}

NumericCell(k, f) ==
  LET y == result.yearly[k] IN
    IF exported.format = "csv" THEN exported.records[k][FullColumns[f]] = Str(y[f])
    ELSE exported.records[k][FullColumns[f]] = y[f]

\* C14 as stated: every export, the PDF included, has one record per year in
\* year order and each record carries all eleven YearlyResult fields.
C14_EveryExportHasElevenFields ==
  exported # None =>
    /\ OneRecordPerYear
    /\ \A k \in 1..Len(exported.records) : FieldsCarried(k) = YearlyFields

\* C14 amended: every export has one record per year in year order; the CSV
\* and XLSX records carry all eleven YearlyResult fields, the PDF records
\* carry six of them (year, price per unit, units, revenue, net profit, net
\* margin %), rounded for display.
C14_ExportRecords ==
  exported # None =>
    /\ OneRecordPerYear
    /\ \A k \in 1..Len(exported.records) :
         LET y == result.yearly[k]
             rec == exported.records[k]
         IN  IF exported.format = "pdf"
             THEN /\ FieldsCarried(k) = DOMAIN PDFColumns
                  /\ Cardinality(DOMAIN rec) = 6
                  /\ rec["Price"] = ToFixed(y.pricePerUnit, 2)
                  /\ rec["Units"] = ToFixed(y.units, 0)
                  /\ rec["Revenue"] = ToFixed(y.revenue, 0)
                  /\ rec["Net profit"] = ToFixed(y.netProfit, 0)
                  /\ rec["Net margin"][1] = ToFixed(y.netMarginPct, 1)
             ELSE /\ FieldsCarried(k) = YearlyFields
                  /\ Cardinality(DOMAIN rec) = 11
                  /\ \A f \in YearlyFields \ {"year"} : NumericCell(k, f)

C14_Witness ==
  /\ exported # None
  /\ exported.format = "csv"
  /\ Len(exported.records) = MaxYears
  /\ exported.records[MaxYears]["Year"] = Str(R(MaxYears))
  /\ exported.records[MaxYears]["Cumulative cash flow"]
       = Str(result.yearly[MaxYears].cumulativeCashFlow)
  /\ RGt(result.yearly[MaxYears].units, Zero)

\* C15: the payback year is a set-once latch - once an iteration has set it,
\* no later iteration changes it, also when the cumulative cash flow falls
\* below 0 again and crosses back; the call returns that year.
C15_PaybackLatchSetOnce ==
  [][/\ (pc = "loop" /\ paybackYear # None) => paybackYear' = paybackYear
     /\ (pc = "loop" /\ pc' = "done") => result'.paybackYear = paybackYear]_vars

C15_Witness ==
  /\ Returned
  /\ Len(result.yearly) = 3
  /\ result.paybackYear = Some(1)
  /\ RGe(CashFlowAt(1), Zero)
  /\ RLt(CashFlowAt(2), Zero)
  /\ RGe(CashFlowAt(3), Zero)

\* second calls that differ from the current one only in the scenario
\* multipliers, the price growth, the horizon, the market parameters or the
\* fixed opex - one of them at a time, and all of them together
OtherScenario ==
  [id |-> "temp", adoptionMultiplier |-> Frac(1, 2), priceMultiplier |-> Frac(11, 10)]
OtherRevenue == [revenue EXCEPT !.annualPriceGrowthPct = R(100)]
OtherMarket ==
  [tamUnitsPerYear |-> <<R(700)>>, samPct |-> R(50), somPct |-> R(20),
   adoptionPctPerYear |-> <<R(10)>>]
OtherCost == [cost EXCEPT !.annualFixedOpex = R(7)]

EmptyMarket ==
  [tamUnitsPerYear |-> <<>>, samPct |-> R(100), somPct |-> R(100),
   adoptionPctPerYear |-> <<>>]

BreakEvenIrrelevantVariants ==
  {[general |-> general, cost |-> cost, market |-> market,
    revenue |-> revenue, scenario |-> sc] : sc \in Scenarios \cup {OtherScenario}}
  \cup
  {[general |-> general, cost |-> cost, market |-> market,
    revenue |-> [revenue EXCEPT !.annualPriceGrowthPct = g], scenario |-> scenario] :
     g \in {R(0), R(50), R(100)}}
  \cup
  {[general |-> general, cost |-> cost, market |-> mk,
    revenue |-> revenue, scenario |-> scenario] : mk \in {OtherMarket, EmptyMarket}}
  \cup
  {[general |-> general, cost |-> [cost EXCEPT !.annualFixedOpex = opex],
    market |-> market, revenue |-> revenue, scenario |-> scenario] :
     opex \in {R(0), R(7), R(3000)}}
  \cup
  {[general |-> [general EXCEPT !.years = y], cost |-> cost, market |-> market,
    revenue |-> revenue, scenario |-> scenario] : y \in 0..MaxYears}
  \cup
  {[general |-> [general EXCEPT !.years = MaxYears - general.years],
    cost |-> OtherCost, market |-> OtherMarket,
    revenue |-> OtherRevenue, scenario |-> OtherScenario]}

\* C16: breakEvenUnits depends only on devCapex, launchMarketingCapex,
\* basePricePerUnit and the selected unit variable cost: a call that differs
\* only in the scenario multipliers, annualPriceGrowthPct, the horizon, the
\* market parameters or annualFixedOpex returns the same breakEvenUnits.
C16_BreakEvenIndependence ==
  Returned =>
    \A v \in BreakEvenIrrelevantVariants :
      buildScenarioResult(v.general, v.cost, v.market, v.revenue, v.scenario).breakEvenUnits
        = result.breakEvenUnits

C16_Witness ==
  /\ Returned
  /\ general.years = MaxYears
  /\ revenue.annualPriceGrowthPct = R(50)
  /\ scenario.id = "aggressive"
  /\ RGt(cost.annualFixedOpex, Zero)
  /\ result.breakEvenUnits = Some(R(750))
  /\ RGt(result.totalRevenue, Zero)

\* C17: after any edits and scenario selections the memoized scenarioResults
\* are buildScenarioResult of the current parameters for every scenario, the
\* displayed result is the entry of the selected scenario, and the
\* sensitivity bars are computed from the current parameters too.
C17_ResultsAreCurrent ==
  pc = "app" =>
    /\ Len(scenarioResults) = Len(scenarios)
    /\ \A k \in 1..Len(scenarios) :
         scenarioResults[k] =
           buildScenarioResult(general, cost, market, revenue, scenarios[k])
    /\ rendered.currentResult.scenario.id = selectedScenarioId
    /\ rendered.currentResult \in {scenarioResults[k] : k \in 1..Len(scenarios)}
    /\ rendered.sensitivityData =
         ComputeSensitivity(general, cost, market, revenue,
                            SelectedScenario(selectedScenarioId),
                            rendered.currentResult)

C17_Witness ==
  /\ pc = "app"
  /\ revenue.annualPriceGrowthPct = R(50)
  /\ cost.devCapex = Zero
  /\ general.years = 3
  /\ general.productType = "hardware"
  /\ selectedScenarioId = "aggressive"
  /\ rendered.currentResult.scenario.id = "aggressive"
  /\ Len(rendered.currentResult.yearly) = 3
  /\ RGt(rendered.currentResult.yearly[3].pricePerUnit, R(20))

\* C18: the break-even tile shows "N/A" exactly when breakEvenUnits is
\* absent and the payback tile shows "Not reached" exactly when paybackYear
\* is absent; a present value, a breakEvenUnits of 0 included, is shown as a
\* number.
C18_TilesShowAbsenceOnly ==
  pc = "app" =>
    /\ rendered.breakEvenTile.text = "N/A"
         <=> rendered.currentResult.breakEvenUnits = None
    /\ rendered.paybackTile.text = "Not reached"
         <=> rendered.currentResult.paybackYear = None

\* C19: the horizon held in the App state is a positive integer after any
\* sequence of edits of the "Horizon (years)" input.
C19_HorizonPositive ==
  pc = "app" => (general.years \in Nat /\ general.years > 0)

====
